---- MODULE Spec2Model ----
(***************************************************************************)
(* A model of ml_logger's ML_Logger (src/ml_logger/ml_logger.py): the      *)
(* metrics accumulator, the step gate, the two table renderers, the flush  *)
(* pipeline, the print buffer and the pickle helpers.  Every handler is    *)
(* one action; a Python exception is an outcome of the handler, recorded   *)
(* in ret.exc, and leaves the object as the code leaves it at the raise.   *)
(***************************************************************************)
EXTENDS Integers, Sequences, FiniteSets, TLC

(***************************************************************************)
(* Bounds of the model.                                                    *)
(***************************************************************************)
\* the number of calls made on the logger in one run
MaxCalls == 3
\* the number of calls made in one run of the pickle helpers
MaxPklCalls == 4
\* the buffer_size the logger is constructed with (the code's default is 2048)
buffer_size == 2
\* the number of heartbeats the background thread of ping makes in one run
MaxPings == 2
\* the number of values appended to a Stream in one run
MaxAppends == 4
\* the largest len a Stream is constructed with
MaxCapacity == 2

(***************************************************************************)
(* Python values.  A value is a record whose single field names its type:  *)
(* [num |-> n] a number, [str |-> s] a text string, [list |-> <<..>>] a    *)
(* list, [none |-> TRUE] None.                                             *)
(***************************************************************************)
None == [none |-> TRUE]
Num(n) == [num |-> n]
Str(s) == [str |-> s]
List(s) == [list |-> s]
IsNone(v) == DOMAIN v = {"none"}
IsNum(v) == DOMAIN v = {"num"}
IsStr(v) == DOMAIN v = {"str"}
IsList(v) == DOMAIN v = {"list"}

\* the inputs of the model
Keys == {"a", "b"}
Values == {Num(1), Str("txt")}
Steps == {None, Num(0), Num(1)}
Prefixes == {"", "run"}
Statuses == {"alive", "completed"}
StreamValues == {Num(1), Num(2)}
Intervals == {None, Num(1)}
\* the **kwargs of log_module: no module, or the module "net"
Modules == {<<>>, <<[k |-> "net", v |-> Num(7)]>>}
\* the failures of the storage collaborator during one call: none, every record
\* append (LogClient.log) fails, every text write (LogClient.log_text) fails
Faults == {"log", "log_text"}
PklPaths == {"data.pkl", "test_file.pkl"}
PklObjects == {Num(1), Num(2)}

(***************************************************************************)
(* OrderedDict / dict: a sequence of [k, v] items in insertion order.      *)
(***************************************************************************)
DictKeys(d) == [i \in 1..Len(d) |-> d[i].k]
HasKey(d, key) == \E i \in 1..Len(d) : d[i].k = key
GetItem(d, key) == d[CHOOSE i \in 1..Len(d) : d[i].k = key].v
SetItem(d, key, v) ==
    IF HasKey(d, key)
    THEN [i \in 1..Len(d) |-> IF d[i].k = key THEN [k |-> key, v |-> v] ELSE d[i]]
    ELSE Append(d, [k |-> key, v |-> v])

\* os.path.join(prefix, name) on relative names: a key is its path components
PathJoin(pfx, name) == IF pfx = "" THEN <<name>> ELSE <<pfx, name>>

(***************************************************************************)
(* Text.  A string is a sequence of tokens: [ch |-> c] a character,        *)
(* [table |-> t] the text of a rendered table.                             *)
(***************************************************************************)
Ch(c) == [ch |-> c]
NL == <<Ch("\n")>>
TableText(t) == <<[table |-> t]>>
\* the lines given to log_line
Lines == {<<Ch("x")>>, <<Ch("y"), Ch("z")>>}

VARIABLES
    step,               \* self.step
    timestamp,          \* self.timestamp
    data,               \* self.data
    do_not_print_list,  \* self.do_not_print_list
    print_buffer,       \* self.print_buffer
    print_buffer_size,  \* self.print_buffer_size
    prefix,             \* self.prefix
    files,              \* the storage behind self.logger: key -> appended objects
    textlog,            \* the storage behind self.logger: the text writes, in order
    events,             \* the effects of the last call, in order
    ret,                \* the last call: its name, arguments, exception and result
    ncalls,             \* calls made so far; also the clock datetime.now() reads
    pkl_history,        \* the log_pkl and dump_pkl calls made so far, in order
    duplex,             \* self.duplex
    pings,              \* the storage behind self.logger: the pings received, in order
    _tic,               \* self._tic, None while the attribute does not exist
    split_times,        \* the times of the split calls made so far, in order
    stream,             \* a Stream (its deque self.d), None while none is constructed
    appended            \* the values appended to the Stream so far, in order

vars == <<step, timestamp, data, do_not_print_list, print_buffer,
          print_buffer_size, prefix, files, textlog, events, ret, ncalls,
          pkl_history, duplex, pings, _tic, split_times, stream, appended>>

\* the logger and its surroundings as one value, threaded through a handler
Self ==
    [exc |-> "none", step |-> step, timestamp |-> timestamp, data |-> data,
     do_not_print_list |-> do_not_print_list, print_buffer |-> print_buffer,
     print_buffer_size |-> print_buffer_size, prefix |-> prefix,
     files |-> files, textlog |-> textlog, events |-> <<>>, output |-> None,
     duplex |-> duplex, pings |-> pings, _tic |-> _tic, fault |-> "none",
     val |-> None]

Raise(w, e) == [w EXCEPT !.exc = e]
Emit(w, e) == [w EXCEPT !.events = Append(@, e)]

\* sequencing inside a handler: F on the value x; G on w unless w has raised
With(x, F(_)) == F(x)
Then(w, G(_)) == IF w.exc # "none" THEN w ELSE G(w)

(***************************************************************************)
(* The storage collaborator (LogClient), seen through its interface.       *)
(***************************************************************************)
FileOf(fs, key) == IF key \in DOMAIN fs THEN fs[key] ELSE <<>>
Store(fs, key, content) ==
    [k \in DOMAIN fs \cup {key} |-> IF k = key THEN content ELSE fs[k]]

\* a call of the collaborator fails with a transport/IO error and stores nothing
StorageError(w, call) == Raise(Emit(w, [ev |-> "storage_error", call |-> call]), "IOError")

\* LogClient.log(key, data, overwrite)
ClientLog(w, key, obj, overwrite) ==
    IF w.fault = "log" THEN StorageError(w, "log")
    ELSE Emit([w EXCEPT !.files = Store(@, key, IF overwrite THEN <<obj>>
                                                ELSE Append(FileOf(@, key), obj))],
              [ev |-> "log", key |-> key])

\* LogClient.log_text(key, text)
ClientLogText(w, key, text) ==
    IF w.fault = "log_text" THEN StorageError(w, "log_text")
    ELSE Emit([w EXCEPT !.textlog = Append(@, [key |-> key, text |-> text])],
              [ev |-> "log_text", key |-> key])

\* LogClient.ping(exp_key, status): the server notes the ping and answers with
\* the signals it holds for the experiment
ClientPing(w, exp_key, status) ==
    [w EXCEPT !.pings = Append(@, [exp_key |-> exp_key, status |-> status]),
              !.val = [signals_after |-> Len(w.pings) + 1]]

\* LogClient.read_pkl(key)
ClientReadPkl(w, key) == FileOf(w.files, key)

(***************************************************************************)
(* Formatting with a format specifier (flush's fmt, ".3f" by default).     *)
(***************************************************************************)
\* v.__format__(".3f") returns for a number and raises for anything else
Formattable(v) == IsNum(v)
\* str raises ValueError (unknown format code), list and None raise TypeError
FormatError(v) == IF IsStr(v) THEN "ValueError" ELSE "TypeError"
\* the text f"{v:.3f}" of a number
Format(v) == [f3 |-> v.num]
\* a table cell: the text in it and the key of the accumulator entry it shows
Cell(key, text) == [src |-> key, text |-> text]
\* the index of the first element of s that cannot be formatted, 0 when all can
FirstBad(s) ==
    IF \A i \in 1..Len(s) : Formattable(s[i]) THEN 0
    ELSE CHOOSE i \in 1..Len(s) :
             /\ ~Formattable(s[i])
             /\ \A j \in 1..(i - 1) : Formattable(s[j])

\* [k for k in data.keys() if k not in do_not_print_list]
PrintedKeys(d, dnp) == SelectSeq(DictKeys(d), LAMBDA k : k \notin dnp)

\* the rows of the single-row layout: a key cell and a value cell per printed key
TabularRows(d, keys) ==
    [i \in 1..Len(keys) |->
        <<Cell(keys[i], keys[i]), Cell(keys[i], Format(GetItem(d, keys[i])))>>]

\* ML_Logger._tabular(data, fmt, do_not_print_list)
_tabular(d, dnp) ==
    With(PrintedKeys(d, dnp), LAMBDA keys :
        IF Len(keys) > 0
        THEN With([i \in 1..Len(keys) |-> GetItem(d, keys[i])], LAMBDA vs :
                IF FirstBad(vs) # 0
                THEN [exc |-> FormatError(vs[FirstBad(vs)]), output |-> None]
                ELSE [exc |-> "none",
                      output |-> [layout |-> "tabular", header |-> <<>>,
                                  rows |-> TabularRows(d, keys)]])
        ELSE [exc |-> "none", output |-> None])

\* values if type(values) is list else [values]
AsList(v) == IF IsList(v) THEN v.list ELSE <<v>>

RECURSIVE Flatten(_)
\* [v for d in values for v in d]
Flatten(vals) == IF vals = <<>> THEN <<>> ELSE Head(vals) \o Flatten(Tail(vals))

\* the length of the longest list
MaxLen(vals) ==
    IF vals = <<>> THEN 0
    ELSE CHOOSE n \in {Len(vals[i]) : i \in 1..Len(vals)} :
             \A i \in 1..Len(vals) : Len(vals[i]) <= n

\* zip_longest(*values): row r holds each list's r-th element, None past its end
ZipLongest(values) ==
    [r \in 1..MaxLen(values) |->
        [j \in 1..Len(values) |->
            IF r <= Len(values[j]) THEN values[j][r] ELSE None]]

\* the rows of the multi-row layout: column j shows the j-th entry of data
RowTableRows(d, zipped) ==
    [r \in 1..Len(zipped) |->
        [j \in 1..Len(zipped[r]) |-> Cell(d[j].k, Format(zipped[r][j]))]]

\* the multi-row layout of data under the header keys, or the exception of its
\* first cell that cannot be formatted
RowTableBody(d, keys, zipped) ==
    With(Flatten(zipped), LAMBDA cells :
        IF FirstBad(cells) # 0
        THEN [exc |-> FormatError(cells[FirstBad(cells)]), output |-> None]
        ELSE [exc |-> "none",
              output |-> [layout |-> "row_table",
                          header |-> [i \in 1..Len(keys) |-> Cell(keys[i], keys[i])],
                          rows |-> RowTableRows(d, zipped)]])

\* ML_Logger._row_table(data, fmt, do_not_print_list)
_row_table(d, dnp) ==
    With(PrintedKeys(d, dnp), LAMBDA keys :
        IF Len(keys) > 0
        THEN With([i \in 1..Len(d) |-> AsList(d[i].v)], LAMBDA values :
                With(Flatten(values), LAMBDA flat :
                    IF FirstBad(flat) # 0
                    THEN [exc |-> FormatError(flat[FirstBad(flat)]), output |-> None]
                    ELSE RowTableBody(d, keys, ZipLongest(values))))
        ELSE [exc |-> "none", output |-> None])

(***************************************************************************)
(* The print buffer.                                                       *)
(***************************************************************************)
\* ML_Logger.log_text(text, filename, silent)
log_text(w, text, filename, silent) ==
    ClientLogText(IF silent THEN w ELSE Emit(w, [ev |-> "print", text |-> text]),
                  PathJoin(w.prefix, filename), text)

\* print_flush without line 548: the text is forwarded and stays in the buffer
print_flush_keeps_text(w) ==
    IF w.print_buffer # <<>>
    THEN log_text(w, w.print_buffer, "text.log", TRUE)
    ELSE w

\* ML_Logger.print_flush()
print_flush(w) ==
    IF w.print_buffer # <<>>
    THEN log_text([w EXCEPT !.print_buffer = <<>>], w.print_buffer, "text.log", TRUE)
    ELSE [w EXCEPT !.print_buffer = <<>>]

\* log_line taking the except branch of lines 195-198: the buffer is replaced
log_line_resets_buffer(w, line, end, silent, flsh) ==
    With([(IF silent THEN w ELSE Emit(w, [ev |-> "print", text |-> line \o end]))
             EXCEPT !.print_buffer = line \o end],
         LAMBDA w1 : IF flsh \/ Len(w1.print_buffer) > w1.print_buffer_size
                     THEN print_flush(w1)
                     ELSE w1)

\* log_line comparing with >=: the buffer is forwarded when it reaches the threshold
log_line_flushes_at_threshold(w, line, end, silent, flsh) ==
    With([(IF silent THEN w ELSE Emit(w, [ev |-> "print", text |-> line \o end]))
             EXCEPT !.print_buffer = @ \o line \o end],
         LAMBDA w1 : IF flsh \/ Len(w1.print_buffer) >= w1.print_buffer_size
                     THEN print_flush(w1)
                     ELSE w1)

\* ML_Logger.log_line(*args, sep, end, silent, flush), line = sep.join(args)
log_line(w, line, end, silent, flsh) ==
    With([(IF silent THEN w ELSE Emit(w, [ev |-> "print", text |-> line \o end]))
             EXCEPT !.print_buffer = @ \o line \o end],
         LAMBDA w1 : IF flsh \/ Len(w1.print_buffer) > w1.print_buffer_size
                     THEN print_flush(w1)
                     ELSE w1)

(***************************************************************************)
(* Colored values, the accumulator and the flush pipeline.                 *)
(***************************************************************************)
\* Color(value, color, formatter): a new object id; the class defines no __eq__,
\* so two Colors are equal only when they are the same object
Color(id, value, color, formatter) ==
    [color |-> [id |-> id, value |-> value, color |-> color, formatter |-> formatter]]
IsColor(v) == DOMAIN v = {"color"}
\* Color.__format__(format_spec): the formatted value, colored unless the color
\* is None or 'default'; the formatter is the default one, lambda v: v
ColorFormat(cv) ==
    IF cv.color.color \in {None, Str("default")}
    THEN Format(cv.color.value)
    ELSE [colored |-> Format(cv.color.value), color |-> cv.color.color]
\* the Colored Values a caller logs: one green, one of no color
ColorValues ==
    {Color(4, Num(1), Str("green"), "identity"), Color(5, Num(1), None, "identity")}
\* three Color objects a caller holds: two wrap the step 0, one the step 1
ColorSteps ==
    {Color(1, Num(0), None, "identity"), Color(2, Num(0), None, "identity"),
     Color(3, Num(1), None, "identity")}
\* v.value if type(v) is Color else v
Unwrap(v) == IF IsColor(v) THEN v.color.value ELSE v

\* str(self.timestamp)
StrOf(v) == [str_of |-> v]

\* dict(_step=self.step, _timestamp=str(self.timestamp), **self.data)
MetricsRecord(w) ==
    <<[k |-> "_step", v |-> w.step],
      [k |-> "_timestamp", v |-> StrOf(w.timestamp)]>> \o w.data

\* flush, lines 246-250: the single-row table, or on any exception the multi-row one
Render(w) ==
    With(_tabular(w.data, w.do_not_print_list), LAMBDA t :
        IF t.exc = "none"
        THEN Emit([w EXCEPT !.output = t.output], [ev |-> "render", output |-> t.output])
        ELSE With(_row_table(w.data, w.do_not_print_list), LAMBDA r :
                IF r.exc = "none"
                THEN Emit(Emit([w EXCEPT !.output = r.output],
                               [ev |-> "print_exc", exc |-> t.exc]),
                          [ev |-> "render", output |-> r.output])
                ELSE Raise(Emit(w, [ev |-> "print_exc", exc |-> t.exc]), r.exc)))

\* flush, line 251: self.log_line('\n' + output); the sum raises when output is None
EmitTable(w) ==
    IF IsNone(w.output) THEN Raise(w, "TypeError")
    ELSE log_line(w, NL \o TableText(w.output), NL, FALSE, TRUE)

\* flush with a best-effort record append: a failure of the collaborator is dropped
AppendRecord_best_effort(w) ==
    IF HasKey(w.data, "_step") \/ HasKey(w.data, "_timestamp")
    THEN Raise(w, "TypeError")
    ELSE [ClientLog(w, PathJoin(w.prefix, "metrics.pkl"), MetricsRecord(w), FALSE)
             EXCEPT !.exc = "none"]

\* flush, lines 252-253: self.logger.log(key=..., data=dict(...)); dict() raises
\* when a keyword is given twice
AppendRecord(w) ==
    IF HasKey(w.data, "_step") \/ HasKey(w.data, "_timestamp")
    THEN Raise(w, "TypeError")
    ELSE ClientLog(w, PathJoin(w.prefix, "metrics.pkl"), MetricsRecord(w), FALSE)

\* flush without line 255: the silent-key set survives the flush
Clear_data_only(w) ==
    Emit([w EXCEPT !.data = <<>>], [ev |-> "clear"])

\* flush, lines 254-255
Clear(w) ==
    Emit([w EXCEPT !.data = <<>>, !.do_not_print_list = {}], [ev |-> "clear"])

\* flush with lines 254-255 moved before the record append
flush_clears_first(w) ==
    IF w.data # <<>>
    THEN Then(Render(w), LAMBDA w1 :
            Then(EmitTable(w1), LAMBDA w2 :
                Then(AppendRecord(Clear(w2)), LAMBDA w3 :
                    print_flush(w3))))
    ELSE print_flush(w)

\* flush with lines 254-255 in a finally clause: cleared whether or not the
\* record append raised
flush_always_clears(w) ==
    IF w.data # <<>>
    THEN Then(Render(w), LAMBDA w1 :
            Then(EmitTable(w1), LAMBDA w2 :
                With(Clear(AppendRecord(w2)), LAMBDA w3 :
                    IF w3.exc # "none" THEN w3 ELSE print_flush(w3))))
    ELSE print_flush(w)

\* ML_Logger.flush(file_name="metrics.pkl", fmt=".3f")
flush(w) ==
    IF w.data # <<>>
    THEN Then(Render(w), LAMBDA w1 :
            Then(EmitTable(w1), LAMBDA w2 :
                Then(AppendRecord(w2), LAMBDA w3 :
                    print_flush(Clear(w3)))))
    ELSE print_flush(w)

\* type(self.data) is list: self.data is the OrderedDict
DataIsList(d) == FALSE

\* the body of the loop over kwargs in ML_Logger.log
LogStore(d, key, v) ==
    IF HasKey(d, key)
    THEN IF DataIsList(d)
         THEN SetItem(d, key, List(Append(GetItem(d, key).list, Unwrap(v))))
         ELSE SetItem(d, key, List(<<GetItem(d, key), Unwrap(v)>>))
    ELSE SetItem(d, key, Unwrap(v))

RECURSIVE LogStoreAll(_, _)
\* for key, v in kwargs.items()
LogStoreAll(d, kwargs) ==
    IF kwargs = <<>> THEN d
    ELSE LogStoreAll(LogStore(d, Head(kwargs).k, Head(kwargs).v), Tail(kwargs))

\* the step gate adopting the new step before it flushes
StepGate_adopts_first(w, stp) ==
    IF w.step # stp /\ ~IsNone(stp)
    THEN flush([w EXCEPT !.step = stp])
    ELSE w

\* the step gate of log, log_keyvalue and log_module: lines 162-164, 224-226, 327-329

StepGate(w, stp) ==
    IF w.step # stp /\ ~IsNone(stp)
    THEN Then(flush(w), LAMBDA w1 : [w1 EXCEPT !.step = stp])
    ELSE w

\* ML_Logger.log(*args, step, silent, sep, end, flush, **kwargs), called at time now
log(w, line, stp, silent, flsh, kwargs, now) ==
    Then(StepGate(w, stp), LAMBDA w1 :
        Then(log_line([w1 EXCEPT !.timestamp = now], line, NL, silent, flsh), LAMBDA w2 :
            [w2 EXCEPT !.do_not_print_list =
                           IF silent THEN @ \cup {kwargs[i].k : i \in 1..Len(kwargs)}
                           ELSE @,
                       !.data = LogStoreAll(@, kwargs)]))

\* the last statement of ML_Logger.log_keyvalue
KeyvalueStore(d, key, v) ==
    IF HasKey(d, key)
    THEN IF DataIsList(d)
         THEN SetItem(d, key, List(Append(GetItem(d, key).list, Unwrap(v))))
         ELSE SetItem(d, key, List(<<GetItem(d, key)>> \o <<Unwrap(v)>>))
    ELSE SetItem(d, key, Unwrap(v))

\* log_keyvalue, lines 233-234
RepeatGate(w, key, stp) ==
    IF IsNone(stp) /\ IsNone(w.step) /\ HasKey(w.data, key) THEN flush(w) ELSE w

\* ML_Logger.log_keyvalue(key, value, step, silent), called at time now
log_keyvalue(w, key, value, stp, silent, now) ==
    Then(StepGate(w, stp), LAMBDA w1 :
        Then(RepeatGate([w1 EXCEPT !.timestamp = now,
                                   !.do_not_print_list =
                                       IF silent THEN @ \cup {key} ELSE @],
                        key, stp),
             LAMBDA w2 : [w2 EXCEPT !.data = KeyvalueStore(@, key, value)]))

\* ML_Logger.__init__ called again as configure(log_directory, prefix)
configure(w, pfx) ==
    Then(flush([w EXCEPT !.step = None, !.duplex = None, !.timestamp = None,
                         !.data = <<>>]),
         LAMBDA w1 : [w1 EXCEPT !.print_buffer_size = buffer_size,
                                !.do_not_print_list = {},
                                !.prefix = pfx])

\* log_pkl passing overwrite=True
log_pkl_overwrites(w, d, path) == ClientLog(w, PathJoin(w.prefix, path), d, TRUE)

\* ML_Logger.log_pkl(data, path)
log_pkl(w, d, path) == ClientLog(w, PathJoin(w.prefix, path), d, FALSE)

\* dump_pkl passing overwrite=False
dump_pkl_appends(w, d, path) == ClientLog(w, PathJoin(w.prefix, path), d, FALSE)

\* ML_Logger.dump_pkl(data, path)
dump_pkl(w, d, path) == ClientLog(w, PathJoin(w.prefix, path), d, TRUE)

\* ML_Logger.load_pkl_log(path)
load_pkl_log(w, path) == ClientReadPkl(w, PathJoin(w.prefix, path))

\* f'{var_name}.pkl' if self.step is None else f'{step:{fmt}}_{var_name}.pkl',
\* joined to the namespace "modules", for the module name "net" and fmt "04d"
ModulePath(stp) ==
    IF Unwrap(stp) = Num(0) THEN "modules/0000_net.pkl" ELSE "modules/0001_net.pkl"

RECURSIVE LogModules(_, _, _)
\* the loop of log_module over kwargs; formatting an absent step raises
LogModules(w, stp, kwargs) ==
    IF kwargs = <<>> \/ w.exc # "none" THEN w
    ELSE LogModules(IF IsNone(w.step)
                    THEN log_pkl(w, Head(kwargs).v, "modules/net.pkl")
                    ELSE IF IsNone(stp) THEN Raise(w, "TypeError")
                    ELSE log_pkl(w, Head(kwargs).v, ModulePath(stp)),
                    stp, Tail(kwargs))

\* ML_Logger.log_module(namespace="modules", fmt="04d", step, **kwargs), the
\* state_dict of a module taken as one object
log_module(w, stp, kwargs) ==
    Then(StepGate(w, stp), LAMBDA w1 : LogModules(w1, stp, kwargs))

(***************************************************************************)
(* The keep-alive heartbeat.  Duplex is seen through its interface: start  *)
(* runs a background thread that calls the thunk with the statuses sent    *)
(* since its last call and buffers what the thunk returns.                 *)
(***************************************************************************)
\* Duplex(thunk, interval), started
Duplex(interval) == [keep_alive_interval |-> interval, outbox |-> <<>>, buffer |-> <<>>]

\* ML_Logger.ping(status, interval): returns the buffered signals
ping(w, status, interval) ==
    With(IF IsNone(w.duplex)
         THEN Duplex(IF IsNone(interval) THEN Num(120) ELSE interval)
         ELSE w.duplex,
         LAMBDA dx :
            [w EXCEPT !.duplex = [keep_alive_interval |->
                                      IF IsNone(interval) THEN dx.keep_alive_interval
                                      ELSE interval,
                                  outbox |-> Append(dx.outbox, status),
                                  buffer |-> <<>>],
                      !.val = List(dx.buffer)])

\* the status the thunk of ping hands to self.logger.ping: statuses[-1], or
\* "running" when none was sent
ThunkStatus(statuses) ==
    IF Len(statuses) > 0 THEN statuses[Len(statuses)] ELSE "running"

\* a thunk that flushes the logger before it pings
thunk_flushes(w, statuses) == ClientPing(flush(w), w.prefix, ThunkStatus(statuses))

\* the thunk of ping, called by the thread of the Duplex
thunk(w, statuses) == ClientPing(w, w.prefix, ThunkStatus(statuses))

(***************************************************************************)
(* split and Stream.                                                       *)
(***************************************************************************)
\* split keeping the first reference tick
split_keeps_tic(w, now) ==
    IF IsNone(w._tic)
    THEN [w EXCEPT !._tic = now, !.val = None]
    ELSE [w EXCEPT !.val = Num(now.time - w._tic.time)]

\* ML_Logger.split(), called at time now; dt.total_seconds() in clock units
split(w, now) ==
    IF IsNone(w._tic)
    THEN [w EXCEPT !._tic = now, !.val = None]
    ELSE [w EXCEPT !._tic = now, !.val = Num(now.time - w._tic.time)]

\* deque(maxlen=n)
Deque(n) == [maxlen |-> n, items |-> <<>>]

\* deque.append(v): a full deque drops its oldest item, one of length 0 holds nothing
DequeAppend(q, v) ==
    IF q.maxlen = 0 THEN q
    ELSE IF Len(q.items) = q.maxlen
         THEN [q EXCEPT !.items = Append(Tail(@), v)]
         ELSE [q EXCEPT !.items = Append(@, v)]

\* Stream(len)
Stream(n) == [d |-> Deque(n)]

\* Stream.append on a deque that never evicts
append_unbounded(st, v) == [st EXCEPT !.d.items = Append(@, v)]

\* Stream.append(d)
append(st, v) == [st EXCEPT !.d = DequeAppend(@, v)]

\* Stream.latest: self.d[-1], an IndexError on an empty deque
latest(st) ==
    IF st.d.items = <<>> THEN [exc |-> "IndexError", val |-> None]
    ELSE [exc |-> "none", val |-> st.d.items[Len(st.d.items)]]

(***************************************************************************)
(* The state machine.                                                      *)
(***************************************************************************)
\* ML_Logger(log_directory, prefix): the logger after construction
Init ==
    /\ step = None
    /\ timestamp = None
    /\ data = <<>>
    /\ do_not_print_list = {}
    /\ print_buffer = <<>>
    /\ print_buffer_size = buffer_size
    /\ prefix \in Prefixes
    /\ files = <<>>
    /\ textlog = <<>>
    /\ events = <<>>
    /\ ret = [op |-> "__init__", args |-> <<>>, exc |-> "none", val |-> None]
    /\ ncalls = 0
    /\ pkl_history = <<>>
    /\ duplex = None
    /\ pings = <<>>
    /\ _tic = None
    /\ split_times = <<>>
    /\ stream = None
    /\ appended = <<>>

\* the call op(args) ends in w, returning val (or raising w.exc)
Return(w, op, args, val) ==
    /\ step' = w.step
    /\ timestamp' = w.timestamp
    /\ data' = w.data
    /\ do_not_print_list' = w.do_not_print_list
    /\ print_buffer' = w.print_buffer
    /\ print_buffer_size' = w.print_buffer_size
    /\ prefix' = w.prefix
    /\ files' = w.files
    /\ textlog' = w.textlog
    /\ events' = w.events
    /\ ret' = [op |-> op, args |-> args, exc |-> w.exc,
               val |-> IF w.exc = "none" THEN val ELSE None]
    /\ ncalls' = ncalls + 1
    /\ pkl_history' = IF op \in {"log_pkl", "dump_pkl"}
                      THEN Append(pkl_history, [op |-> op, path |-> args.path,
                                                data |-> args.data])
                      ELSE pkl_history
    /\ duplex' = w.duplex
    /\ _tic' = w._tic
    /\ split_times' = IF op = "split" THEN Append(split_times, args.now)
                      ELSE split_times
    /\ pings' = w.pings
    /\ UNCHANGED <<stream, appended>>

\* datetime.now()
Now == [time |-> ncalls + 1]

Log ==
    /\ ncalls < MaxCalls
    /\ \E stp \in Steps, silent \in BOOLEAN, key \in Keys, v \in Values :
           Return(log(Self, <<>>, stp, silent, TRUE, <<[k |-> key, v |-> v]>>, Now),
                  "log", [step |-> stp, silent |-> silent, key |-> key, value |-> v],
                  None)

LogKeyvalue ==
    /\ ncalls < MaxCalls
    /\ \E stp \in Steps, silent \in BOOLEAN, key \in Keys, v \in Values :
           Return(log_keyvalue(Self, key, v, stp, silent, Now),
                  "log_keyvalue",
                  [step |-> stp, silent |-> silent, key |-> key, value |-> v], None)

Flush ==
    /\ ncalls < MaxCalls
    /\ Return(flush(Self), "flush", <<>>, None)

LogLine ==
    /\ ncalls < MaxCalls
    /\ \E line \in Lines, flsh \in BOOLEAN :
           Return(log_line(Self, line, NL, FALSE, flsh),
                  "log_line", [line |-> line, flush |-> flsh], None)

Configure ==
    /\ ncalls < MaxCalls
    /\ \E pfx \in Prefixes :
           Return(configure(Self, pfx), "configure", [prefix |-> pfx], None)

LogPkl ==
    /\ ncalls < MaxPklCalls
    /\ \E d \in PklObjects, path \in PklPaths :
           Return(log_pkl(Self, d, path), "log_pkl", [data |-> d, path |-> path], None)

DumpPkl ==
    /\ ncalls < MaxPklCalls
    /\ \E d \in PklObjects, path \in PklPaths :
           Return(dump_pkl(Self, d, path), "dump_pkl", [data |-> d, path |-> path], None)

LoadPklLog ==
    /\ ncalls < MaxPklCalls
    /\ \E path \in PklPaths :
           Return(Self, "load_pkl_log", [path |-> path], load_pkl_log(Self, path))

\* log and log_keyvalue given a Colored Value as step
LogColored ==
    /\ ncalls < MaxCalls
    /\ \E stp \in ColorSteps, key \in Keys, v \in Values :
           Return(log(Self, <<>>, stp, FALSE, TRUE, <<[k |-> key, v |-> v]>>, Now),
                  "log", [step |-> stp, silent |-> FALSE, key |-> key, value |-> v],
                  None)

LogKeyvalueColored ==
    /\ ncalls < MaxCalls
    /\ \E stp \in ColorSteps, key \in Keys, v \in Values :
           Return(log_keyvalue(Self, key, v, stp, FALSE, Now),
                  "log_keyvalue",
                  [step |-> stp, silent |-> FALSE, key |-> key, value |-> v], None)

\* log(step=stp, silent=silent, a=va, b=vb)
LogPair ==
    /\ ncalls < MaxCalls
    /\ \E stp \in Steps, silent \in BOOLEAN, va \in Values, vb \in Values :
           With(<<[k |-> "a", v |-> va], [k |-> "b", v |-> vb]>>, LAMBDA kwargs :
               Return(log(Self, <<>>, stp, silent, TRUE, kwargs, Now),
                      "log", [step |-> stp, silent |-> silent, kwargs |-> kwargs],
                      None))

\* log(step=stp, key=Color(...))
LogColoredValue ==
    /\ ncalls < MaxCalls
    /\ \E stp \in Steps, key \in Keys, v \in ColorValues :
           Return(log(Self, <<>>, stp, FALSE, TRUE, <<[k |-> key, v |-> v]>>, Now),
                  "log", [step |-> stp, silent |-> FALSE, key |-> key, value |-> v],
                  None)

\* log, log_keyvalue and flush while the storage collaborator fails
LogFaulty ==
    /\ ncalls < MaxCalls
    /\ \E f \in Faults, stp \in Steps, silent \in BOOLEAN, key \in Keys, v \in Values :
           Return(log([Self EXCEPT !.fault = f], <<>>, stp, silent, TRUE,
                      <<[k |-> key, v |-> v]>>, Now),
                  "log", [step |-> stp, silent |-> silent, key |-> key, value |-> v],
                  None)

LogKeyvalueFaulty ==
    /\ ncalls < MaxCalls
    /\ \E f \in Faults, stp \in Steps, silent \in BOOLEAN, key \in Keys, v \in Values :
           Return(log_keyvalue([Self EXCEPT !.fault = f], key, v, stp, silent, Now),
                  "log_keyvalue",
                  [step |-> stp, silent |-> silent, key |-> key, value |-> v], None)

FlushFaulty ==
    /\ ncalls < MaxCalls
    /\ \E f \in Faults : Return(flush([Self EXCEPT !.fault = f]), "flush", <<>>, None)

PrintFlush ==
    /\ ncalls < MaxCalls
    /\ Return(print_flush(Self), "print_flush", <<>>, None)

LogModule ==
    /\ ncalls < MaxCalls
    /\ \E stp \in Steps, kwargs \in Modules :
           Return(log_module(Self, stp, kwargs), "log_module",
                  [step |-> stp, kwargs |-> kwargs], None)

Ping ==
    /\ ncalls < MaxCalls
    /\ \E status \in Statuses, interval \in Intervals :
           With(ping(Self, status, interval), LAMBDA w :
               Return(w, "ping", [status |-> status, interval |-> interval], w.val))

\* one heartbeat of the thread started by ping; it is no call of the caller's
Tick ==
    /\ ~IsNone(duplex)
    /\ Len(pings) < MaxPings
    /\ With(thunk(Self, duplex.outbox), LAMBDA w :
           /\ step' = w.step
           /\ timestamp' = w.timestamp
           /\ data' = w.data
           /\ do_not_print_list' = w.do_not_print_list
           /\ print_buffer' = w.print_buffer
           /\ print_buffer_size' = w.print_buffer_size
           /\ prefix' = w.prefix
           /\ files' = w.files
           /\ textlog' = w.textlog
           /\ pings' = w.pings
           /\ duplex' = [w.duplex EXCEPT !.outbox = <<>>, !.buffer = Append(@, w.val)])
    /\ UNCHANGED <<events, ret, ncalls, pkl_history, _tic, split_times, stream, appended>>

Split ==
    /\ ncalls < MaxCalls
    /\ With(split(Self, Now), LAMBDA w : Return(w, "split", [now |-> Now], w.val))

\* Stream(len=n)
NewStream ==
    /\ IsNone(stream)
    /\ \E n \in 0..MaxCapacity :
           /\ stream' = Stream(n)
           /\ ret' = [op |-> "Stream", args |-> [len |-> n], exc |-> "none", val |-> None]
    /\ UNCHANGED <<step, timestamp, data, do_not_print_list, print_buffer,
                   print_buffer_size, prefix, files, textlog, events, ncalls,
                   pkl_history, duplex, pings, _tic, split_times, appended>>

StreamAppend ==
    /\ ~IsNone(stream)
    /\ Len(appended) < MaxAppends
    /\ \E v \in StreamValues :
           /\ stream' = append(stream, v)
           /\ appended' = Append(appended, v)
           /\ ret' = [op |-> "append", args |-> [d |-> v], exc |-> "none", val |-> None]
    /\ UNCHANGED <<step, timestamp, data, do_not_print_list, print_buffer,
                   print_buffer_size, prefix, files, textlog, events, ncalls,
                   pkl_history, duplex, pings, _tic, split_times>>

StreamLatest ==
    /\ ~IsNone(stream)
    /\ ret' = [op |-> "latest", args |-> <<>>, exc |-> latest(stream).exc,
               val |-> latest(stream).val]
    /\ UNCHANGED <<step, timestamp, data, do_not_print_list, print_buffer,
                   print_buffer_size, prefix, files, textlog, events, ncalls,
                   pkl_history, duplex, pings, _tic, split_times, stream, appended>>

\* the metrics engine: logging calls, flushes and reconfiguration
Next == Log \/ LogKeyvalue \/ Flush \/ LogLine \/ Configure

Spec == Init /\ [][Next]_vars

\* the pickle helpers
NextPkl == LogPkl \/ DumpPkl \/ LoadPklLog

SpecPkl == Init /\ [][NextPkl]_vars

\* the metrics engine on a storage collaborator that can fail
NextFaulty == Log \/ LogKeyvalue \/ Flush \/ LogFaulty \/ LogKeyvalueFaulty \/ FlushFaulty

SpecFaulty == Init /\ [][NextFaulty]_vars

\* the metrics engine given Colored Values as steps
NextColored == Log \/ LogKeyvalue \/ Flush \/ LogColored \/ LogKeyvalueColored

SpecColored == Init /\ [][NextColored]_vars

\* the print buffer
NextText == LogLine \/ Flush \/ PrintFlush

SpecText == Init /\ [][NextText]_vars

\* the metrics engine with the heartbeat of ping running beside it
NextPing == Log \/ LogKeyvalue \/ Flush \/ Ping \/ Tick

SpecPing == Init /\ [][NextPing]_vars

\* split between other calls
NextSplit == Split \/ LogLine \/ Configure

SpecSplit == Init /\ [][NextSplit]_vars

\* a Stream
NextStream == NewStream \/ StreamAppend \/ StreamLatest

SpecStream == Init /\ [][NextStream]_vars

\* the renderers on accumulators of several keys
NextRender == Log \/ LogPair \/ Flush

SpecRender == Init /\ [][NextRender]_vars

\* the metrics engine given Colored Values as values
NextColoredValue == Log \/ Flush \/ LogColoredValue

SpecColoredValue == Init /\ [][NextColoredValue]_vars

\* the step gate of log, log_keyvalue and log_module
NextStep == Log \/ LogKeyvalue \/ Flush \/ Configure \/ LogModule

SpecStep == Init /\ [][NextStep]_vars

(***************************************************************************)
(* Vocabulary of the properties.                                           *)
(***************************************************************************)
\* the records stored at the metrics destination key of the current prefix
Metrics == FileOf(files, PathJoin(prefix, "metrics.pkl"))
\* the record a flush of the current accumulator hands to storage
PendingRecord ==
    <<[k |-> "_step", v |-> step],
      [k |-> "_timestamp", v |-> StrOf(timestamp)]>> \o data
HasEvent(evs, name) == \E i \in 1..Len(evs) : evs[i].ev = name
\* the tables rendered during the last call
RenderedTables(evs) ==
    {evs[i].output : i \in {j \in 1..Len(evs) : evs[j].ev = "render" /\ ~IsNone(evs[j].output)}}
\* the keys whose name or value shows in a cell of table t
ShownKeys(t) ==
    {t.header[i].src : i \in 1..Len(t.header)}
        \cup UNION {{t.rows[r][j].src : j \in 1..Len(t.rows[r])} : r \in 1..Len(t.rows)}
IsLoggingCall(r) == r.op \in {"log", "log_keyvalue"}

(***************************************************************************)
(* C1.  A logging call whose step is given and differs from the current    *)
(* step first flushes everything accumulated so far into a record of its   *)
(* own (under the old step), then adopts the new step, and only then       *)
(* records its own key/value: afterwards the accumulator holds the call's  *)
(* key/value alone.                                                        *)
(***************************************************************************)
C1_StepChangeFlushesFirst ==
    [][(/\ IsLoggingCall(ret')
        /\ ~IsNone(ret'.args.step)
        /\ ret'.args.step # step)
       => /\ step' = ret'.args.step
          /\ data' = <<[k |-> ret'.args.key, v |-> ret'.args.value]>>
          /\ Metrics' = IF data # <<>> THEN Append(Metrics, PendingRecord) ELSE Metrics]_vars

(***************************************************************************)
(* C2.  Within one accumulation window a key logged again holds the flat   *)
(* ordered list of its values: a call that logs value v for a key already  *)
(* held (no flush in between) leaves the entry as the old values followed  *)
(* by v, a scalar becoming a two-element list and a list growing by one    *)
(* element, never a nested list.                                           *)
(***************************************************************************)
C2_FlatOrderedList ==
    [][(/\ IsLoggingCall(ret')
        /\ ret'.exc = "none"
        /\ ~HasEvent(events', "clear")
        /\ HasKey(data, ret'.args.key))
       => GetItem(data', ret'.args.key)
              = List(AsList(GetItem(data, ret'.args.key)) \o <<ret'.args.value>>)]_vars

(***************************************************************************)
(* C3.  flush() of an accumulator holding one key logged once appends      *)
(* exactly one record, whose items are _step (the current step),           *)
(* _timestamp and that key with the logged value.                          *)
(***************************************************************************)
C3_OnceLoggedRecord ==
    [][(/\ ret'.op = "flush"
        /\ Len(data) = 1
        /\ ~IsList(data[1].v))
       => files' = Store(files, PathJoin(prefix, "metrics.pkl"),
                         Append(Metrics, <<[k |-> "_step", v |-> step],
                                           [k |-> "_timestamp", v |-> StrOf(timestamp)],
                                           data[1]>>))]_vars

(***************************************************************************)
(* C4.  flush() of an accumulator that holds silent keys renders a table   *)
(* in which no cell shows a silent key's name or value, and appends the    *)
(* record with every key, silent ones included, whatever the mix of        *)
(* silent and other keys, all keys silent included.                        *)
(***************************************************************************)
C4_SilentKeysHiddenButStored ==
    [][(/\ ret'.op = "flush"
        /\ \E i \in 1..Len(data) : data[i].k \in do_not_print_list)
       => /\ Metrics' = Append(Metrics, PendingRecord)
          /\ \A t \in RenderedTables(events') : ShownKeys(t) \cap do_not_print_list = {}]_vars

(***************************************************************************)
(* C5.  flush() does not raise when the single-row table cannot be built:  *)
(* the exception is printed, the multi-row table is rendered instead, the  *)
(* record is appended and the accumulator is cleared.                      *)
(***************************************************************************)
C5_RenderFallbackNeverRaises ==
    [][(/\ ret'.op = "flush"
        /\ data # <<>>
        /\ _tabular(data, do_not_print_list).exc # "none")
       => /\ ret'.exc = "none"
          /\ HasEvent(events', "print_exc")
          /\ \E t \in RenderedTables(events') : t.layout = "row_table"
          /\ Metrics' = Append(Metrics, PendingRecord)
          /\ data' = <<>>]_vars

(***************************************************************************)
(* C6.  flush() on an empty accumulator appends no record and keeps the    *)
(* current step, forwards the pending print-buffer text (if any) as one    *)
(* text write and empties the buffer; called again right after a flush it  *)
(* writes nothing to storage.                                              *)
(***************************************************************************)
C6_EmptyFlushOnlyForwardsText ==
    [][(ret'.op = "flush" /\ data = <<>>)
       => /\ files' = files
          /\ step' = step
          /\ print_buffer' = <<>>
          /\ textlog' = IF print_buffer # <<>>
                        THEN Append(textlog, [key |-> PathJoin(prefix, "text.log"),
                                              text |-> print_buffer])
                        ELSE textlog
          /\ ret.op = "flush" => textlog' = textlog]_vars

\* a flush found the accumulator empty and pending text, and forwarded the text
C6_Witness ==
    /\ ret.op = "flush"
    /\ ret.exc = "none"
    /\ events = <<[ev |-> "log_text", key |-> PathJoin(prefix, "text.log")]>>
    /\ textlog # <<>>
    /\ textlog[Len(textlog)].text = <<Ch("x")>> \o NL
    /\ print_buffer = <<>>
    /\ files = <<>>

(***************************************************************************)
(* C7.  The accumulator is empty right after construction (and after       *)
(* configure, which runs the constructor again), and after every flush()   *)
(* that returns normally the accumulator and the silent-key set are both   *)
(* empty; when a logging call ran the flush, they hold afterwards only     *)
(* what that call recorded.                                                *)
(***************************************************************************)
C7_EmptyAfterInitAndFlush ==
    /\ (ret.op \in {"__init__", "configure"} /\ ret.exc = "none") => data = <<>>
    /\ (ret.op = "flush" /\ ret.exc = "none") => (data = <<>> /\ do_not_print_list = {})
    \* a flush run by a logging call: only what the call recorded after it is held
    /\ (IsLoggingCall(ret) /\ ret.exc = "none" /\ HasEvent(events, "clear"))
           => /\ data = <<[k |-> ret.args.key, v |-> ret.args.value]>>
              /\ do_not_print_list \subseteq {ret.args.key}

\* a flush has returned after storing a record with a silent key in it: the
\* table it rendered has fewer rows than the record has keys
C7_Witness ==
    /\ ret.op = "flush"
    /\ ret.exc = "none"
    /\ HasEvent(events, "clear")
    /\ data = <<>>
    /\ do_not_print_list = {}
    /\ Metrics # <<>>
    /\ \E t \in RenderedTables(events) : Len(t.rows) < Len(Metrics[Len(Metrics)]) - 2

(***************************************************************************)
(* C8.  Every flush that runs on a non-empty accumulator, whether called   *)
(* directly or by a logging call, appends exactly one record at the        *)
(* metrics key, and no call ever changes or removes a stored record: each  *)
(* file after a call is the file before it extended at its end.            *)
(***************************************************************************)
IsPrefixOf(s, t) == Len(s) <= Len(t) /\ SubSeq(t, 1, Len(s)) = s
\* the last call ran flush on a non-empty accumulator: a renderer was entered
FlushedNonEmpty(evs) == HasEvent(evs, "render") \/ HasEvent(evs, "print_exc")

C8_FlushAppendsOneRecord ==
    [][/\ \A key \in DOMAIN files :
              key \in DOMAIN files' /\ IsPrefixOf(files[key], files'[key])
       /\ FlushedNonEmpty(events') =>
              files' = Store(files, PathJoin(prefix, "metrics.pkl"),
                             Append(Metrics, PendingRecord))]_vars

(***************************************************************************)
(* C9.  After k >= 1 log_pkl calls on a path that nothing else has written *)
(* to, load_pkl_log on the path returns the k logged objects, in the       *)
(* order they were logged.                                                 *)
(***************************************************************************)
\* the calls of history h made on path, and the objects they were given
CallsOn(h, path) == SelectSeq(h, LAMBDA e : e.path = path)
DataOf(h) == [i \in 1..Len(h) |-> h[i].data]
OnlyLogged(h) == \A i \in 1..Len(h) : h[i].op = "log_pkl"

C9_LogPklRoundTrip ==
    (/\ ret.op = "load_pkl_log"
     /\ CallsOn(pkl_history, ret.args.path) # <<>>
     /\ OnlyLogged(CallsOn(pkl_history, ret.args.path)))
    => ret.val = DataOf(CallsOn(pkl_history, ret.args.path))

\* two different objects were logged to one path and read back
C9_Witness ==
    /\ ret.op = "load_pkl_log"
    /\ OnlyLogged(CallsOn(pkl_history, ret.args.path))
    /\ Len(CallsOn(pkl_history, ret.args.path)) >= 2
    /\ Len(ret.val) >= 2
    /\ ret.val[1] # ret.val[2]

(***************************************************************************)
(* C10.  dump_pkl(d, path) replaces what is stored at path: load_pkl_log   *)
(* returns d alone when dump_pkl(d) was the last write to the path, and d  *)
(* followed by the objects of the log_pkl calls made after it otherwise.   *)
(***************************************************************************)
\* the index in h of the last dump_pkl, 0 when there is none
LastDump(h) ==
    IF OnlyLogged(h) THEN 0
    ELSE CHOOSE i \in 1..Len(h) :
             /\ h[i].op = "dump_pkl"
             /\ \A j \in (i + 1)..Len(h) : h[j].op = "log_pkl"

C10_DumpPklReplaces ==
    (/\ ret.op = "load_pkl_log"
     /\ LastDump(CallsOn(pkl_history, ret.args.path)) # 0)
    => ret.val = DataOf(SubSeq(CallsOn(pkl_history, ret.args.path),
                               LastDump(CallsOn(pkl_history, ret.args.path)),
                               Len(CallsOn(pkl_history, ret.args.path))))

\* an object was logged, another dumped over it, a third logged after it, and
\* the last two were read back
C10_Witness ==
    /\ ret.op = "load_pkl_log"
    /\ Len(CallsOn(pkl_history, ret.args.path)) = 3
    /\ LastDump(CallsOn(pkl_history, ret.args.path)) = 2
    /\ CallsOn(pkl_history, ret.args.path)[1].data # CallsOn(pkl_history, ret.args.path)[2].data
    /\ Len(ret.val) = 2
    /\ ret.val[1] = CallsOn(pkl_history, ret.args.path)[2].data

(***************************************************************************)
(* C11.  A failure of the storage collaborator during the record append or *)
(* during a text write is not swallowed: the call in which it happens,     *)
(* flush() itself or the log / log_keyvalue call that ran the flush,       *)
(* raises the error to its caller.                                         *)
(***************************************************************************)
\* the storage calls that failed during the last call
StorageErrors(evs) ==
    {evs[i].call : i \in {j \in 1..Len(evs) : evs[j].ev = "storage_error"}}

C11_StorageFailurePropagates ==
    StorageErrors(events) # {} => ret.exc = "IOError"

\* a log_keyvalue call changed the step, the flush it ran rendered the table and
\* wrote its text, the record append failed, and the call raised
C11_Witness ==
    /\ ret.op = "log_keyvalue"
    /\ ~IsNone(ret.args.step)
    /\ ret.args.step # step
    /\ HasEvent(events, "render")
    /\ HasEvent(events, "log_text")
    /\ StorageErrors(events) = {"log"}
    /\ ret.exc = "IOError"

(***************************************************************************)
(* C12.  A step given as a Colored Value is compared with the current step *)
(* by the scalar it wraps: a logging call whose Colored step wraps the     *)
(* scalar of the current step (itself plain or Colored) runs no flush, the *)
(* accumulated data stays and no record is appended; one that wraps a      *)
(* different scalar flushes the accumulated data.                          *)
(***************************************************************************)
C12_ColoredStepComparedByValue ==
    [][(/\ IsLoggingCall(ret')
        /\ IsColor(ret'.args.step)
        /\ ~IsNone(step)
        /\ data # <<>>)
       => IF Unwrap(ret'.args.step) = Unwrap(step)
          THEN ~FlushedNonEmpty(events') /\ Metrics' = Metrics
          ELSE FlushedNonEmpty(events')]_vars

(***************************************************************************)
(* C13.  While no step has ever been supplied, a logging call (log or      *)
(* log_keyvalue) for a key the accumulator already holds flushes before it *)
(* records the new value: in a run that never steps, the accumulator never *)
(* holds more than one value for a key.                                    *)
(***************************************************************************)
C13_NeverSteppedHoldsOneValue ==
    IsNone(step) => \A i \in 1..Len(data) : ~IsList(data[i].v)

(***************************************************************************)
(* C14.  Over log_line calls (with either flush flag) and flush /          *)
(* print_flush calls, the text writes handed to storage, concatenated in   *)
(* order and followed by the print buffer, are the logged texts            *)
(* (line + end) concatenated in call order: each call extends that         *)
(* concatenation by exactly its own text, and each write forwards the      *)
(* whole buffer as one write and leaves the buffer empty.                  *)
(***************************************************************************)
RECURSIVE Written(_)
\* the texts of the writes tl, concatenated in order
Written(tl) == IF tl = <<>> THEN <<>> ELSE Head(tl).text \o Written(Tail(tl))
\* the text call r hands to log_line
LoggedText(r) == IF r.op = "log_line" THEN r.args.line \o NL ELSE <<>>

C14_PrintBufferConservesText ==
    [][(ret'.op \in {"log_line", "flush", "print_flush"} /\ data = <<>>)
       => /\ Written(textlog') \o print_buffer'
                 = Written(textlog) \o print_buffer \o LoggedText(ret')
          /\ textlog' # textlog
                 => /\ textlog' = Append(textlog,
                                         [key |-> PathJoin(prefix, "text.log"),
                                          text |-> print_buffer \o LoggedText(ret')])
                    /\ print_buffer' = <<>>]_vars

\* two lines were forwarded together as one write when the second crossed the
\* threshold, and a third waits in the buffer
C14_Witness ==
    /\ ret.op = "log_line"
    /\ ~ret.args.flush
    /\ Len(textlog) = 1
    /\ textlog[1].text = <<Ch("x")>> \o NL \o <<Ch("y"), Ch("z")>> \o NL
    /\ print_buffer = <<Ch("x")>> \o NL

(***************************************************************************)
(* C15.  A log_line call with flush=False forwards the print buffer to     *)
(* storage exactly when the buffer, with the new text appended, is longer  *)
(* than print_buffer_size; after any log_line call the buffer is no longer *)
(* than print_buffer_size.                                                 *)
(***************************************************************************)
C15_ThresholdFlush ==
    [][ret'.op = "log_line"
       => /\ ~ret'.args.flush
                 => (textlog' # textlog
                        <=> Len(print_buffer \o ret'.args.line \o NL) > print_buffer_size)
          /\ Len(print_buffer') <= print_buffer_size]_vars

\* a log_line call with flush=False left the buffer exactly at the threshold
C15_Witness ==
    /\ ret.op = "log_line"
    /\ ~ret.args.flush
    /\ Len(print_buffer) = print_buffer_size
    /\ events = <<[ev |-> "print", text |-> print_buffer]>>

(***************************************************************************)
(* C16.  Neither ping nor a heartbeat of the thread it starts reads or     *)
(* writes the accumulator, the silent-key set, the current step or the     *)
(* print buffer, and neither appends a record or writes text: wherever a   *)
(* heartbeat falls between log / log_keyvalue / flush calls, those calls   *)
(* find and leave the same state, records and text as without it.          *)
(***************************************************************************)
C16_HeartbeatLeavesAccumulator ==
    [][(ret'.op = "ping" \/ pings' # pings)
       => UNCHANGED <<step, timestamp, data, do_not_print_list, print_buffer,
                      print_buffer_size, prefix, files, textlog>>]_vars

\* a heartbeat delivered the status given to ping while the accumulator held data
\* and a record was already stored
C16_Witness ==
    /\ pings # <<>>
    /\ pings[Len(pings)].status = "alive"
    /\ ~IsNone(duplex)
    /\ duplex.buffer # <<>>
    /\ data # <<>>
    /\ IsLoggingCall(ret)

LastN(s, n) == SubSeq(s, (IF Len(s) > n THEN Len(s) - n ELSE 0) + 1, Len(s))
\* the Stream holds the last values appended, within its capacity
HoldsLastN ==
    /\ stream.d.items = LastN(appended, stream.d.maxlen)
    /\ Len(stream.d.items) <= stream.d.maxlen

C18_StreamHoldsLastN ==
    ~IsNone(stream)
    => /\ HoldsLastN
       /\ (ret.op = "latest" /\ appended # <<>> /\ stream.d.maxlen >= 1)
              => (ret.exc = "none" /\ ret.val = appended[Len(appended)])
       /\ (ret.op = "latest" /\ (appended = <<>> \/ stream.d.maxlen = 0))
              => ret.exc = "IndexError"

\* a Stream of capacity 2 was given three values, evicted the first, and latest
\* returned the third
C18_Witness ==
    /\ ~IsNone(stream)
    /\ stream.d.maxlen = 2
    /\ Len(appended) = 3
    /\ appended[3] # appended[2]
    /\ stream.d.items = <<appended[2], appended[3]>>
    /\ ret.op = "latest"
    /\ ret.val = appended[3]

(***************************************************************************)
(* C18 as stated, for every capacity: after at least one append, latest    *)
(* returns the most recently appended value.                               *)
(***************************************************************************)
C18_LatestOfAnyCapacity ==
    ~IsNone(stream)
    => /\ HoldsLastN
       /\ (ret.op = "latest" /\ appended # <<>>)
              => (ret.exc = "none" /\ ret.val = appended[Len(appended)])

(***************************************************************************)
(* C19.  A flush of a non-empty accumulator has its effects in this order: *)
(* the table is rendered, its text is emitted (printed and written to the  *)
(* text log), the record is handed to storage, the accumulator and the     *)
(* silent-key set are cleared, and the print buffer is flushed last (it is *)
(* empty afterwards).  A flush that raises has done an initial part of     *)
(* that order; in no call is the accumulator cleared before the record was *)
(* handed to storage.                                                      *)
(***************************************************************************)
\* the effects evs by name, the diagnostic print of a render exception left out
EffectNames(evs) ==
    With(SelectSeq(evs, LAMBDA e : e.ev # "print_exc"), LAMBDA s :
        [i \in 1..Len(s) |-> s[i].ev])
FlushOrder == <<"render", "print", "log_text", "log", "clear">>

C19_FlushOrder ==
    [][/\ (ret'.op = "flush" /\ data # <<>>)
           => /\ IsPrefixOf(EffectNames(events'), FlushOrder)
              /\ ret'.exc = "none"
                     => (EffectNames(events') = FlushOrder /\ print_buffer' = <<>>)
       /\ \A i \in 1..Len(events') :
              events'[i].ev = "clear" => (i > 1 /\ events'[i - 1].ev = "log")]_vars

\* a flush rendered a table, wrote the text pending in the buffer together with
\* the table, appended the record and cleared the accumulator
C19_Witness ==
    /\ ret.op = "flush"
    /\ ret.exc = "none"
    /\ EffectNames(events) = FlushOrder
    /\ textlog # <<>>
    /\ Len(textlog[Len(textlog)].text) > 3
    /\ Metrics # <<>>
    /\ data = <<>>

(***************************************************************************)
(* C20.  Every appended record carries as _step the step that was current  *)
(* when each of its key/values was recorded.  In steps of a call: a record *)
(* appended by the call holds the step and the accumulator of before the   *)
(* call (a flush run by a step change writes the old step, never the new   *)
(* one); a call that changes the current step carries no earlier value     *)
(* over into the new step; and a logging call given no step records under  *)
(* the step it finds.                                                      *)
(***************************************************************************)
\* what the accumulator may hold right after call r changed the current step
RecordedBy(r) ==
    IF IsLoggingCall(r) /\ r.exc = "none"
    THEN <<[k |-> r.args.key, v |-> r.args.value]>>
    ELSE <<>>

\* the records at the metrics key after the call are those before it and one
\* more, which holds step stp and the key/values kvs
AppendedRecord(before, after, stp, kvs) ==
    /\ Len(after) = Len(before) + 1
    /\ SubSeq(after, 1, Len(before)) = before
    /\ after[Len(after)][1] = [k |-> "_step", v |-> stp]
    /\ SubSeq(after[Len(after)], 3, Len(after[Len(after)])) = kvs

C20_RecordStepIsRecordingStep ==
    [][/\ FileOf(files', PathJoin(prefix, "metrics.pkl")) # Metrics
           => AppendedRecord(Metrics, FileOf(files', PathJoin(prefix, "metrics.pkl")),
                             step, data)
       /\ step' # step => data' = RecordedBy(ret')
       /\ (IsLoggingCall(ret') /\ IsNone(ret'.args.step)) => step' = step]_vars

\* two keys were recorded under step 0, one of them by a call given no step, and
\* the call that moved to step 1 flushed them into one record of step 0
C20_Witness ==
    /\ IsLoggingCall(ret)
    /\ ret.args.step = Num(1)
    /\ step = Num(1)
    /\ data = RecordedBy(ret)
    /\ Len(Metrics) = 1
    /\ Len(Metrics[1]) = 4
    /\ Metrics[1][1] = [k |-> "_step", v |-> Num(0)]

(***************************************************************************)
(* C21.  A flush renders the single-row layout exactly when no key of the  *)
(* accumulator holds an accumulated list: when any key, silent or not,     *)
(* holds a list, the table rendered is the multi-row one.                  *)
(***************************************************************************)
\* some key of accumulator acc holds an accumulated list
HoldsList(acc) == \E i \in 1..Len(acc) : IsList(acc[i].v)

C21_SingleRowIffNoList ==
    [][(ret'.op = "flush" /\ data # <<>>)
       => \A t \in RenderedTables(events') :
              (t.layout = "tabular") <=> ~HoldsList(data)]_vars

(***************************************************************************)
(* C22.  When the multi-row layout is used on an accumulator of numbers    *)
(* and lists of numbers, the flush completes without raising and renders   *)
(* as many data rows as the longest list is long, every row with a cell of *)
(* every column: a key with a shorter list, or a single value, is padded.  *)
(***************************************************************************)
\* the value lists of accumulator acc, a single value as a list of one
ValueLists(acc) == [i \in 1..Len(acc) |-> AsList(acc[i].v)]

C22_MultiRowPadsShorterLists ==
    [][(/\ ret'.op = "flush"
        /\ data # <<>>
        /\ _tabular(data, do_not_print_list).exc # "none"
        /\ FirstBad(Flatten(ValueLists(data))) = 0)
       => /\ ret'.exc = "none"
          /\ \E t \in RenderedTables(events') :
                 /\ t.layout = "row_table"
                 /\ Len(t.rows) = MaxLen(ValueLists(data))
                 /\ \A r \in 1..Len(t.rows) : Len(t.rows[r]) = Len(data)]_vars

(***************************************************************************)
(* C23.  A flush run by a log or log_keyvalue call happens before every    *)
(* effect of that call on the accumulator and on the silent-key set: it    *)
(* ends as a flush() called just before the call would end, renders the    *)
(* same table and appends the same record, and the call's silent flag      *)
(* marks the call's own key in the new window only.                        *)
(***************************************************************************)
\* the logger ends call r, which ran a flush, as flush() called on w ends
FlushedAs(w, r, evs, fs) ==
    /\ FlushedNonEmpty(flush(w).events)
    /\ flush(w).exc # "none" => r.exc = flush(w).exc
    /\ RenderedTables(evs) = RenderedTables(flush(w).events)
    /\ fs = flush(w).files

\* the record's _timestamp is left open: the time of the last recording or of
\* the call that runs the flush
C23_ImplicitFlushBeforeOwnEffects ==
    [][(IsLoggingCall(ret') /\ FlushedNonEmpty(events'))
       => /\ \E t \in {timestamp, timestamp'} :
                 FlushedAs([Self EXCEPT !.timestamp = t], ret', events', files')
          /\ ret'.exc = "none"
                 => do_not_print_list' = IF ret'.args.silent THEN {ret'.args.key}
                                         ELSE {}]_vars

(***************************************************************************)
(* C24.  A value logged as a Colored Value is shown in the flushed table   *)
(* as the Colored Value formats itself (its formatter applied, the text in *)
(* its color), while the accumulator and the appended record hold the      *)
(* scalar it wraps.  Stated for a flush() that follows the log call.       *)
(***************************************************************************)
\* the texts of the value cells table t shows for key
ValueCells(t, key) ==
    {t.rows[r][2].text : r \in {q \in 1..Len(t.rows) : t.rows[q][2].src = key}}

C24_ColoredValueRendersItself ==
    [][(/\ ret.op = "log"
        /\ ret.exc = "none"
        /\ IsColor(ret.args.value)
        /\ ret'.op = "flush"
        /\ data = <<[k |-> ret.args.key, v |-> Unwrap(ret.args.value)]>>)
       => /\ Metrics' = Append(Metrics, PendingRecord)
          /\ \E t \in RenderedTables(events') :
                 /\ t.layout = "tabular"
                 /\ ValueCells(t, ret.args.key) = {ColorFormat(ret.args.value)}]_vars

(***************************************************************************)
(* C25.  No accepted metric is dropped or duplicated.  In steps of a call  *)
(* of log, log_keyvalue, flush or configure that does not raise: either    *)
(* the call appends one record, which holds exactly what the accumulator   *)
(* held, and the accumulator holds afterwards only what the call itself    *)
(* recorded; or it appends none and every key the accumulator held is      *)
(* still held.  In particular configure does not discard accumulated data. *)
(***************************************************************************)
C25_NoMetricDroppedOrDuplicated ==
    [][(ret'.op \in {"log", "log_keyvalue", "flush", "configure"} /\ ret'.exc = "none")
       => IF FileOf(files', PathJoin(prefix, "metrics.pkl")) # Metrics
          THEN /\ AppendedRecord(Metrics, FileOf(files', PathJoin(prefix, "metrics.pkl")),
                                 step, data)
               /\ data' = RecordedBy(ret')
          ELSE \A i \in 1..Len(data) : HasKey(data', data[i].k)]_vars

(***************************************************************************)
(* C26.  When the record append fails during a flush, the accumulator, the *)
(* silent-key set and the current step are left as they were when the      *)
(* flush started, so a later flush serializes the same data.  When a step  *)
(* change in log or log_keyvalue ran the flush, these are as before the    *)
(* call: the call adopts no new step and records nothing of its own.  In   *)
(* the repeated-key flush of log_keyvalue the silent-key set at the start  *)
(* of the flush already holds the call's key when the call is silent.      *)
(***************************************************************************)
\* call r runs no step-change flush but the repeated-key flush of log_keyvalue
IsRepeatFlush(r) ==
    r.op = "log_keyvalue" /\ (IsNone(r.args.step) \/ r.args.step = step)

C26_FailedAppendLeavesAccumulator ==
    [][StorageErrors(events') = {"log"}
       => /\ ret'.exc = "IOError"
          /\ data' = data
          /\ step' = step
          /\ files' = files
          /\ IF IsRepeatFlush(ret')
             THEN do_not_print_list' = do_not_print_list
                      \cup (IF ret'.args.silent THEN {ret'.args.key} ELSE {})
             ELSE do_not_print_list' = do_not_print_list /\ timestamp' = timestamp]_vars

\* a log call that moved from step 0 to step 1 ran a flush of two keys, one of
\* them silent, whose record append failed: the call raised and the logger
\* still holds step 0 and both keys
C26_Witness ==
    /\ ret.op = "log"
    /\ ret.args.step = Num(1)
    /\ ret.exc = "IOError"
    /\ StorageErrors(events) = {"log"}
    /\ step = Num(0)
    /\ Len(data) = 2
    /\ do_not_print_list # {}
    /\ files = <<>>

====
